---- MODULE Spec2Model ----
(***************************************************************************)
(* A model of diagnostic_updater.hpp: the task registry                    *)
(* (DiagnosticTaskVector), the composite task (CompositeDiagnosticTask)    *)
(* and the rate-limited scheduler (Updater).                               *)
(*                                                                         *)
(* The specifications of the module share its variables:                   *)
(*   Spec          the Updater's public operations, each taken as one      *)
(*                 atomic step (the registry mutex serialises them);       *)
(*   SpecNoHwid    Spec without a hardware id ever being set;              *)
(*   SpecTimer     Spec driven by the Timer alone;                         *)
(*   SpecThrow     Spec with task callbacks that throw;                    *)
(*   SpecConc      add / removeByName / update split into the steps of     *)
(*                 their code, run by several threads around lock_;        *)
(*   SpecConcFair  SpecConc with weakly fair threads;                       *)
(*   SpecReenter   SpecConc with callbacks that call back into the         *)
(*                 registry;                                               *)
(*   SpecComposite CompositeDiagnosticTask::run, one loop iteration per    *)
(*                 step, over bounded children and input reports.          *)
(*                                                                         *)
(* The header declares but does not define Updater::update, reset_timer,   *)
(* publish, broadcast, addedTaskCallback and the DiagnosticStatusWrapper   *)
(* summary operations; those are modelled from the specification text.     *)
(***************************************************************************)
EXTENDS Integers, Sequences, FiniteSets, TLC

(* ------------------------------ bounds -------------------------------- *)

\* Largest number of entries the registry holds in the model.
MaxTasks == 3

\* Last reading of the Clock in the model.
MaxTime == 3

\* Largest period, in clock units.
MaxPeriod == 2

\* Largest number of children of a composite task in the model.
MaxChildren == 3

\* Number of threads calling into one Updater.
NumThreads == 3

(* --------------------------- status reports --------------------------- *)

\* Severity levels of a StatusReport, ordered OK < WARN < ERROR < STALE.
OK == 0

WARN == 1

ERROR == 2

STALE == 3

Levels == {OK, WARN, ERROR, STALE}

\* Registered task names.
Names == {"a", "b"}

\* A freshly constructed StatusReport: nothing set yet.
FreshStatus == [name |-> "", level |-> OK, message |-> "", values |-> << >>]

\* stat.summary(lvl, msg): sets level and message, leaves name and fields.
summary(stat, lvl, msg) == [stat EXCEPT !.level = lvl, !.message = msg]

\* stat.add(key, value): appends one field.
addValue(stat, key, value) == [stat EXCEPT !.values = Append(@, <<key, value>>)]

\* The user callbacks a registry entry can hold.
\*   "ok"      reports OK and appends one field;
\*   "rename"  assigns the report's name itself and reports WARN.
TaskFns == {"ok", "rename"}

\* A callback that can fail: "throw" throws instead of filling the report in.
ThrowingFns == {"throw"}

\* What a call yields when an exception leaves it instead of a report.
Exception == [exception |-> "callback failed"]

IsException(r) == "exception" \in DOMAIN r

\* fn_(stat): what each callback does to the report it is given.
ApplyFn(f, stat) ==
  CASE f = "ok"     -> addValue(summary(stat, OK, "fine"), "k", "v")
    [] f = "rename" -> summary([stat EXCEPT !.name = "renamed"], WARN, "low battery")
    [] f = "throw"  -> Exception

\* DiagnosticTaskInternal(name, f)
DiagnosticTaskInternal(name, f) == [name |-> name, fn |-> f]

Entries == {DiagnosticTaskInternal(n, f) : n \in Names, f \in TaskFns}

\* Mutant: the name is written after the callback instead of before it.
run_NameAfter(task, stat) == [ApplyFn(task.fn, stat) EXCEPT !.name = task.name]

\* Mutant: run catches what the callback throws and reports it as ERROR.
run_Catching(task, stat) ==
  LET named == [stat EXCEPT !.name = task.name]
  IN IF IsException(ApplyFn(task.fn, named))
       THEN summary(named, ERROR, "callback failed")
       ELSE ApplyFn(task.fn, named)

\* DiagnosticTaskInternal::run: stat.name = name_; fn_(stat); nothing is
\* caught, so an exception of the callback leaves run.
run(task, stat) == ApplyFn(task.fn, [stat EXCEPT !.name = task.name])

(* ------------------------------ state --------------------------------- *)

VARIABLES
  tasks_,             \* DiagnosticTaskVector::tasks_
  period_,            \* Updater::period_
  next_due,           \* the time the next periodic dispatch is due
  now,                \* the Clock's reading
  hwid_,              \* Updater::hwid_
  warn_nohwid_done_,  \* Updater::warn_nohwid_done_
  published,          \* the batches the Sink received during the last step
  last,               \* the last call: operation, arguments, result, prior state
  due_base,           \* clock reading when next_due was last computed
  ran,                \* how many task callbacks the last step invoked
  raised,             \* whether the last call ended by an exception reaching its caller
  nwarn,              \* no-hardware-id reports handed to the Sink so far (counted to 2)
  dispatched,         \* whether a dispatch pass has completed since construction
  ctasks,             \* CompositeDiagnosticTask::tasks_, the children
  stat,               \* run's parameter stat, the working report
  original_summary,   \* run's local original_summary
  combined_summary,   \* run's local combined_summary
  ci,                 \* run's iterator i, as a position in the children
  cpc,                \* where run is: "idle", "start", "loop" or "done"
  stat0,              \* the report as it was passed to run
  seen,               \* the report each child was run on, in order
  lock_,              \* DiagnosticTaskVector::lock_: the thread holding it, 0 if free
  th,                 \* per thread: where it is in its call, and the call's locals
  reg,                \* the registry the completed adds and removals amount to
  relock              \* what locking lock_ again does to the thread that holds it

updVars == <<tasks_, period_, next_due, now, hwid_, warn_nohwid_done_,
             published, last, due_base, ran, raised, nwarn, dispatched>>

compVars == <<ctasks, stat, original_summary, combined_summary, ci, cpc, stat0, seen>>

concVars == <<lock_, th, reg, relock>>

vars == <<updVars, compVars, concVars>>

Periods == 1..MaxPeriod

HardwareIDs == {"", "hw"}

\* The record of a call: what was called with what, what it returned, and the
\* registry and schedule as they were when it was called.
Call(op, name, arg, ret) ==
  [op |-> op, name |-> name, arg |-> arg, ret |-> ret,
   tasks |-> tasks_, next_due |-> next_due, period |-> period_,
   warned |-> warn_nohwid_done_, due_base |-> due_base, dispatched |-> dispatched,
   hwid |-> hwid_,
   twice |-> (op = "force_update" /\ last.op = "force_update" /\ ~raised),
   earlier |-> IF op = "force_update" /\ last.op = "force_update" /\ ~raised
                 THEN published ELSE << >>]

\* A step that invokes no task callback and raises nothing.
Quiet ==
  /\ ran' = 0
  /\ raised' = FALSE

(* ----------------------------- registry ------------------------------- *)

RECURSIVE FindFirst_Last(_, _, _)
\* Mutant: the scan keeps going and returns the last match.
FindFirst_Last(tasks, name, i) ==
  IF i > Len(tasks) THEN 0
  ELSE LET rest == FindFirst_Last(tasks, name, i + 1)
       IN IF rest # 0 THEN rest
          ELSE IF tasks[i].name = name THEN i ELSE 0

RECURSIVE FindFirst(_, _, _)
\* The loop of removeByName: the position of the first entry from i on whose
\* name is `name`, 0 when the loop reaches end().
FindFirst(tasks, name, i) ==
  IF i > Len(tasks) THEN 0
  ELSE IF tasks[i].name = name THEN i
  ELSE FindFirst(tasks, name, i + 1)

\* tasks_.erase(iter)
Erase(tasks, i) == SubSeq(tasks, 1, i - 1) \o SubSeq(tasks, i + 1, Len(tasks))

\* The Sink: publish(status_vec) hands one batch over.
publish(batch) == <<batch>>

\* Updater::addedTaskCallback: a placeholder report for the new entry alone.
addedTaskCallback(task) ==
  publish(<<summary([FreshStatus EXCEPT !.name = task.name], OK, "Node starting up")>>)

\* Mutant: the hook is not called.
addInternal_NoHook(task) ==
  /\ tasks_' = Append(tasks_, task)
  /\ published' = << >>
  /\ Quiet

\* DiagnosticTaskVector::addInternal, under lock_: push_back, then the hook.
addInternal(task) ==
  /\ tasks_' = Append(tasks_, task)
  /\ published' = addedTaskCallback(task)

\* DiagnosticTaskVector::add(name, f)
add(name, f) ==
  /\ Len(tasks_) < MaxTasks
  /\ addInternal(DiagnosticTaskInternal(name, f))
  /\ Quiet
  /\ last' = Call("add", name, 0, TRUE)
  /\ UNCHANGED <<period_, next_due, now, hwid_, warn_nohwid_done_, nwarn, dispatched, due_base>>

\* DiagnosticTaskVector::removeByName(name)
removeByName(name) ==
  LET i == FindFirst(tasks_, name, 1)
  IN /\ tasks_' = IF i # 0 THEN Erase(tasks_, i) ELSE tasks_
     /\ last' = Call("removeByName", name, 0, i # 0)
     /\ published' = << >>
     /\ Quiet
     /\ UNCHANGED <<period_, next_due, now, hwid_, warn_nohwid_done_, nwarn, dispatched, due_base>>

(* ----------------------------- scheduler ------------------------------ *)

\* The synthetic report of a pass that finds no hardware id.
NoHwidStatus ==
  summary([FreshStatus EXCEPT !.name = "diagnostic_updater"], WARN, "No HW_ID was set")

\* Mutant: the pass stops one entry short of the end.
RunTasks_StopEarly(tasks) ==
  [i \in 1..(IF Len(tasks) > 1 THEN Len(tasks) - 1 ELSE Len(tasks)) |->
     run(tasks[i], FreshStatus)]

\* The reports of one pass over `tasks`: a fresh report per entry, run by it.
RunTasks(tasks) == [i \in 1..Len(tasks) |-> run(tasks[i], FreshStatus)]

RECURSIVE FirstException(_, _)
\* The position of the first entry from i on whose callback throws, 0 if none.
FirstException(tasks, i) ==
  IF i > Len(tasks) THEN 0
  ELSE IF IsException(run(tasks[i], FreshStatus)) THEN i
  ELSE FirstException(tasks, i + 1)

\* One more no-hardware-id report, counted no further than 2.
CountWarn(n) == IF n < 2 THEN n + 1 ELSE n

\* Mutant: the no-hardware-id report is appended but the latch is not set.
update_NoLatch ==
  LET failed == FirstException(tasks_, 1)
      warn == hwid_ = "" /\ ~warn_nohwid_done_
      status_vec == RunTasks(tasks_) \o (IF warn THEN <<NoHwidStatus>> ELSE << >>)
  IN /\ IF failed # 0
          THEN /\ published' = << >>
               /\ ran' = failed
               /\ raised' = TRUE
               /\ UNCHANGED <<warn_nohwid_done_, nwarn, dispatched>>
          ELSE /\ published' = publish(status_vec)
               /\ ran' = Len(tasks_)
               /\ raised' = FALSE
               /\ warn_nohwid_done_' = warn_nohwid_done_
               /\ nwarn' = IF warn THEN CountWarn(nwarn) ELSE nwarn
               /\ dispatched' = TRUE
     /\ UNCHANGED <<tasks_, period_, hwid_>>

\* Updater::update, the dispatch pass: run every entry of the registry,
\* append the no-hardware-id report once, publish the batch. An exception of
\* a callback is not caught: it ends the pass where it is thrown and reaches
\* the caller.
update ==
  LET failed == FirstException(tasks_, 1)
      warn == hwid_ = "" /\ ~warn_nohwid_done_
      status_vec == RunTasks(tasks_) \o (IF warn THEN <<NoHwidStatus>> ELSE << >>)
  IN /\ IF failed # 0
          THEN /\ published' = << >>
               /\ ran' = failed
               /\ raised' = TRUE
               /\ UNCHANGED <<warn_nohwid_done_, nwarn, dispatched>>
          ELSE /\ published' = publish(status_vec)
               /\ ran' = Len(tasks_)
               /\ raised' = FALSE
               /\ warn_nohwid_done_' = (warn_nohwid_done_ \/ warn)
               /\ nwarn' = IF warn THEN CountWarn(nwarn) ELSE nwarn
               /\ dispatched' = TRUE
     /\ UNCHANGED <<tasks_, period_, hwid_>>

\* Updater::reset_timer: the schedule starts again from the clock's reading.
reset_timer ==
  /\ next_due' = now + period_'
  /\ due_base' = now

\* Mutant: every tick runs a pass, due or not.
tick_NoGate ==
  /\ update
  /\ IF raised'
       THEN UNCHANGED <<next_due, due_base>>
       ELSE /\ next_due' = now + period_
            /\ due_base' = now
  /\ last' = Call("tick", "", 0, TRUE)
  /\ UNCHANGED now

\* Mutant: the pass waits until the due time has passed.
tick_Strict ==
  /\ IF now > next_due
       THEN /\ update
            /\ IF raised'
                 THEN UNCHANGED <<next_due, due_base>>
                 ELSE /\ next_due' = now + period_
                      /\ due_base' = now
       ELSE /\ published' = << >>
            /\ Quiet
            /\ UNCHANGED <<tasks_, period_, hwid_, warn_nohwid_done_, nwarn, dispatched, next_due, due_base>>
  /\ last' = Call("tick", "", 0, now > next_due)
  /\ UNCHANGED now

\* The Timer's callback: a pass when due, and, the pass having returned, the
\* next one a period later.
tick ==
  /\ IF now >= next_due
       THEN /\ update
            /\ IF raised'
                 THEN UNCHANGED <<next_due, due_base>>
                 ELSE /\ next_due' = now + period_
                      /\ due_base' = now
       ELSE /\ published' = << >>
            /\ Quiet
            /\ UNCHANGED <<tasks_, period_, hwid_, warn_nohwid_done_, nwarn, dispatched, next_due, due_base>>
  /\ last' = Call("tick", "", 0, now >= next_due)
  /\ UNCHANGED now

\* Mutant: the forced pass goes through the timer's path and reschedules.
force_update_Reschedule ==
  /\ update
  /\ next_due' = now + period_
  /\ due_base' = now
  /\ last' = Call("force_update", "", 0, TRUE)
  /\ UNCHANGED now

\* Mutant: the forced pass is gated by the schedule like the timer's.
force_update_Gated ==
  /\ IF now >= next_due
       THEN /\ update
            /\ IF raised'
                 THEN UNCHANGED <<next_due, due_base>>
                 ELSE /\ next_due' = now + period_
                      /\ due_base' = now
       ELSE /\ published' = << >>
            /\ Quiet
            /\ UNCHANGED <<tasks_, period_, hwid_, warn_nohwid_done_, nwarn, dispatched, next_due, due_base>>
  /\ last' = Call("force_update", "", 0, TRUE)
  /\ UNCHANGED now

\* Updater::force_update: update(), whatever the schedule says.
force_update ==
  /\ update
  /\ last' = Call("force_update", "", 0, TRUE)
  /\ UNCHANGED <<next_due, due_base, now>>

\* Mutant: the period is stored but the timer is not reset.
setPeriod_NoReset(period) ==
  /\ period_' = period
  /\ published' = << >>
  /\ Quiet
  /\ last' = Call("setPeriod", "", period, TRUE)
  /\ UNCHANGED <<tasks_, next_due, due_base, now, hwid_, warn_nohwid_done_, nwarn, dispatched>>

\* Updater::setPeriod: period_ = period; reset_timer();
setPeriod(period) ==
  /\ period_' = period
  /\ reset_timer
  /\ published' = << >>
  /\ Quiet
  /\ last' = Call("setPeriod", "", period, TRUE)
  /\ UNCHANGED <<tasks_, now, hwid_, warn_nohwid_done_, nwarn, dispatched>>

\* Mutant: a new hardware id re-arms the no-hardware-id warning.
setHardwareID_Rearm(hwid) ==
  /\ hwid_' = hwid
  /\ warn_nohwid_done_' = FALSE
  /\ published' = << >>
  /\ Quiet
  /\ last' = Call("setHardwareID", hwid, 0, TRUE)
  /\ UNCHANGED <<tasks_, period_, next_due, due_base, now, nwarn, dispatched>>

\* Updater::setHardwareID
setHardwareID(hwid) ==
  /\ hwid_' = hwid
  /\ published' = << >>
  /\ Quiet
  /\ last' = Call("setHardwareID", hwid, 0, TRUE)
  /\ UNCHANGED <<tasks_, period_, next_due, due_base, now, warn_nohwid_done_, nwarn, dispatched>>

\* The level and message pairs broadcast is called with.
BroadcastArgs == {<<ERROR, "shutting down">>, <<OK, "self test">>}

\* Mutant: broadcast runs the tasks and then overwrites their summaries.
broadcast_RunsTasks(lvl, msg) ==
  /\ published' = publish([i \in 1..Len(tasks_) |->
                             summary(run(tasks_[i], FreshStatus), lvl, msg)])
  /\ ran' = Len(tasks_)
  /\ raised' = FALSE
  /\ last' = Call("broadcast", msg, lvl, TRUE)
  /\ UNCHANGED <<tasks_, period_, next_due, due_base, now, hwid_, warn_nohwid_done_, nwarn, dispatched>>

\* Updater::broadcast: one report per registered name with the level and
\* message given, published at once; no callback is invoked.
broadcast(lvl, msg) ==
  /\ published' = publish([i \in 1..Len(tasks_) |->
                             summary([FreshStatus EXCEPT !.name = tasks_[i].name], lvl, msg)])
  /\ Quiet
  /\ last' = Call("broadcast", msg, lvl, TRUE)
  /\ UNCHANGED <<tasks_, period_, next_due, due_base, now, hwid_, warn_nohwid_done_, nwarn, dispatched>>

\* The Clock advances.
AdvanceClock ==
  /\ now < MaxTime
  /\ now' = now + 1
  /\ published' = << >>
  /\ Quiet
  /\ last' = Call("clock", "", 0, TRUE)
  /\ UNCHANGED <<tasks_, period_, next_due, due_base, hwid_, warn_nohwid_done_, nwarn, dispatched>>

\* Updater::Updater: an empty registry, the period given, the timer started.
UpdaterInit ==
  /\ tasks_ = << >>
  /\ period_ \in Periods
  /\ now = 0
  /\ next_due = now + period_
  /\ due_base = now
  /\ hwid_ = ""
  /\ warn_nohwid_done_ = FALSE
  /\ published = << >>
  /\ ran = 0
  /\ raised = FALSE
  /\ nwarn = 0
  /\ dispatched = FALSE
  /\ last = [op |-> "construct", name |-> "", arg |-> period_, ret |-> TRUE,
             tasks |-> << >>, next_due |-> now + period_, period |-> period_,
             warned |-> FALSE, due_base |-> now, dispatched |-> FALSE,
             hwid |-> "",
             twice |-> FALSE, earlier |-> << >>]

(* --------------------------- composite task --------------------------- *)

\* The larger of two levels.
Max(a, b) == IF a >= b THEN a ELSE b

\* dst.summary(src): copies level and message from another report.
summaryFrom(dst, src) == summary(dst, src.level, src.message)

\* The delimiter between merged messages.
Delimiter == "; "

\* acc.mergeSummary(src): the level becomes the larger one; the message of a
\* report that is not OK is appended, after the delimiter when something is
\* there already.
mergeSummary(acc, src) ==
  [acc EXCEPT
     !.level = Max(@, src.level),
     !.message = IF src.level = OK THEN @
                 ELSE IF @ = "" THEN src.message
                 ELSE @ \o Delimiter \o src.message]

\* The messages children report.
Messages == {"low battery", "overheat"}

\* The children a composite can hold: a child either sets its own summary and
\* appends one field named after its message, or leaves the summary it was
\* given and appends two fields.
ChildTasks ==
  {[kind |-> "summary", level |-> l, message |-> m] : l \in Levels, m \in Messages}
    \cup {[kind |-> "fields", level |-> OK, message |-> ""]}

\* The fields a child appends.
ChildValues(c) ==
  IF c.kind = "summary" THEN << <<c.message, "1">> >>
  ELSE << <<"x", "1">>, <<"y", "2">> >>

\* (*i)->run(stat) for a child.
ChildRun(c, st) ==
  LET withFields == [st EXCEPT !.values = @ \o ChildValues(c)]
  IN IF c.kind = "summary" THEN summary(withFields, c.level, c.message)
     ELSE withFields

\* The reports a composite is run on.
InputReports ==
  {[name |-> "imu", level |-> l, message |-> "init", values |-> v] :
     l \in {OK, ERROR}, v \in {<< >>, << <<"pre", "0">> >>}}

\* Sequences over S of length at most n.
SeqUpTo(S, n) == UNION {[1..k -> S] : k \in 0..n}

\* No composite is running.
CompositeIdle ==
  /\ ctasks = << >>
  /\ stat = FreshStatus
  /\ stat0 = FreshStatus
  /\ original_summary = FreshStatus
  /\ combined_summary = FreshStatus
  /\ ci = 0
  /\ cpc = "idle"
  /\ seen = << >>

\* run is called: both locals are default-constructed.
CompositeInit ==
  /\ ctasks \in SeqUpTo(ChildTasks, MaxChildren)
  /\ stat \in InputReports
  /\ stat0 = stat
  /\ original_summary = FreshStatus
  /\ combined_summary = FreshStatus
  /\ ci = 0
  /\ cpc = "start"
  /\ seen = << >>

\* Mutant: the summary passed in is not saved.
CompositeBegin_NoSave ==
  /\ cpc = "start"
  /\ ci' = 1
  /\ cpc' = "loop"
  /\ UNCHANGED <<ctasks, stat, original_summary, combined_summary, stat0, seen>>

\* original_summary.summary(stat); i = tasks_.begin()
CompositeBegin ==
  /\ cpc = "start"
  /\ original_summary' = summaryFrom(original_summary, stat)
  /\ ci' = 1
  /\ cpc' = "loop"
  /\ UNCHANGED <<ctasks, stat, combined_summary, stat0, seen>>

\* Mutant: the summary passed in is not put back before the child runs.
CompositeIter_NoReset ==
  /\ cpc = "loop"
  /\ ci <= Len(ctasks)
  /\ LET child_out == ChildRun(ctasks[ci], stat)
     IN /\ seen' = Append(seen, stat)
        /\ stat' = child_out
        /\ combined_summary' = mergeSummary(combined_summary, child_out)
  /\ ci' = ci + 1
  /\ UNCHANGED <<ctasks, original_summary, cpc, stat0>>

\* One iteration of the loop: stat.summary(original_summary);
\* (*i)->run(stat); combined_summary.mergeSummary(stat); i++
CompositeIter ==
  /\ cpc = "loop"
  /\ ci <= Len(ctasks)
  /\ LET child_out == ChildRun(ctasks[ci], summaryFrom(stat, original_summary))
     IN /\ seen' = Append(seen, summaryFrom(stat, original_summary))
        /\ stat' = child_out
        /\ combined_summary' = mergeSummary(combined_summary, child_out)
  /\ ci' = ci + 1
  /\ UNCHANGED <<ctasks, original_summary, cpc, stat0>>

\* Mutant: the combined report is assigned to the output whole.
CompositeEnd_Assign ==
  /\ cpc = "loop"
  /\ ci > Len(ctasks)
  /\ stat' = combined_summary
  /\ cpc' = "done"
  /\ UNCHANGED <<ctasks, original_summary, combined_summary, ci, stat0, seen>>

\* Mutant: a composite without children puts the summary passed in back.
CompositeEnd_KeepWhenEmpty ==
  /\ cpc = "loop"
  /\ ci > Len(ctasks)
  /\ stat' = summaryFrom(stat, IF ctasks = << >> THEN original_summary ELSE combined_summary)
  /\ cpc' = "done"
  /\ UNCHANGED <<ctasks, original_summary, combined_summary, ci, stat0, seen>>

\* i == tasks_.end(): stat.summary(combined_summary)
CompositeEnd ==
  /\ cpc = "loop"
  /\ ci > Len(ctasks)
  /\ stat' = summaryFrom(stat, combined_summary)
  /\ cpc' = "done"
  /\ UNCHANGED <<ctasks, original_summary, combined_summary, ci, stat0, seen>>

(* ------------------------ threads and the mutex ----------------------- *)

Threads == 1..NumThreads

\* A thread that is not inside a call.
IdleThread ==
  [pc |-> "idle", task |-> DiagnosticTaskInternal("", ""), name |-> "",
   end |-> 0, iter |-> 0, status_vec |-> << >>, snap |-> << >>]

\* The entries threads add: one plain task and one that renames its report.
ConcEntries == {DiagnosticTaskInternal("a", "ok"), DiagnosticTaskInternal("b", "rename")}

\* Callbacks that call back into the registry they are registered in:
\* "readd" calls add, "unregister" calls removeByName.
ReentrantFns == {"readd", "unregister"}

\* std::mutex::lock by the thread that owns the mutex is undefined: the
\* thread blocks for good, or the library detects it and throws
\* std::system_error (resource_deadlock_would_occur).
RelockOutcomes == {"block", "throw"}

\* No thread is inside a call.
ConcIdle ==
  /\ lock_ = 0
  /\ th = [t \in Threads |-> IdleThread]
  /\ reg = << >>
  /\ relock = "block"

\* What a step of thread t leaves alone besides the registry and the Sink.
ConcFrame ==
  UNCHANGED <<period_, next_due, now, hwid_, last, due_base, ran, raised, compVars, relock>>

\* Mutant: the mutex is recursive.
Acquire_Recursive(t) ==
  /\ lock_ \in {0, t}
  /\ lock_' = t

\* std::unique_lock<std::mutex> lock(lock_): blocks until the mutex is free.
Acquire(t) ==
  /\ lock_ = 0
  /\ lock_' = t

\* The unique_lock goes out of scope.
Release(t) == lock_' = IF lock_ = t THEN 0 ELSE lock_

\* add(name, f): builds int_task and calls addInternal.
StartAdd(t, task) ==
  /\ th[t].pc = "idle"
  /\ Len(reg) + Cardinality({u \in Threads : th[u].pc \in {"add_lock", "add_push", "add_store"}})
       < MaxTasks
  /\ th' = [th EXCEPT ![t] = [IdleThread EXCEPT !.pc = "add_lock", !.task = task]]
  /\ published' = << >>
  /\ UNCHANGED <<tasks_, warn_nohwid_done_, nwarn, dispatched, lock_, reg>>
  /\ ConcFrame

\* Mutant: addInternal does not take the mutex.
AddLock_NoMutex(t) ==
  /\ th[t].pc = "add_lock"
  /\ th' = [th EXCEPT ![t].pc = "add_push"]
  /\ published' = << >>
  /\ UNCHANGED <<tasks_, warn_nohwid_done_, nwarn, dispatched, lock_, reg>>
  /\ ConcFrame

\* addInternal: std::unique_lock<std::mutex> lock(lock_);
AddLock(t) ==
  /\ th[t].pc = "add_lock"
  /\ Acquire(t)
  /\ th' = [th EXCEPT ![t].pc = "add_push"]
  /\ published' = << >>
  /\ UNCHANGED <<tasks_, warn_nohwid_done_, nwarn, dispatched, reg>>
  /\ ConcFrame

\* tasks_.push_back(task), first half: the vector's end is read.
AddPush(t) ==
  /\ th[t].pc = "add_push"
  /\ th' = [th EXCEPT ![t].pc = "add_store", ![t].end = Len(tasks_)]
  /\ published' = << >>
  /\ UNCHANGED <<tasks_, warn_nohwid_done_, nwarn, dispatched, lock_, reg>>
  /\ ConcFrame

\* tasks_.push_back(task), second half: the entry is stored at the end that
\* was read and the vector ends after it.
AddStore(t) ==
  /\ th[t].pc = "add_store"
  /\ tasks_' = [k \in 1..(th[t].end + 1) |->
                  IF k <= th[t].end /\ k <= Len(tasks_) THEN tasks_[k] ELSE th[t].task]
  /\ reg' = Append(reg, th[t].task)
  /\ th' = [th EXCEPT ![t].pc = "add_callback"]
  /\ published' = << >>
  /\ UNCHANGED <<warn_nohwid_done_, nwarn, dispatched, lock_>>
  /\ ConcFrame

\* Mutant: the hook calls add, which locks the mutex again.
AddCallback_Relock(t) ==
  /\ th[t].pc = "add_callback"
  /\ Acquire(t)
  /\ published' = addedTaskCallback(th[t].task)
  /\ th' = [th EXCEPT ![t].pc = "add_return"]
  /\ UNCHANGED <<tasks_, warn_nohwid_done_, nwarn, dispatched, reg>>
  /\ ConcFrame

\* addInternal: addedTaskCallback(task);
AddCallback(t) ==
  /\ th[t].pc = "add_callback"
  /\ published' = addedTaskCallback(th[t].task)
  /\ th' = [th EXCEPT ![t].pc = "add_return"]
  /\ UNCHANGED <<tasks_, warn_nohwid_done_, nwarn, dispatched, lock_, reg>>
  /\ ConcFrame

\* addInternal returns: the lock is released.
AddReturn(t) ==
  /\ th[t].pc = "add_return"
  /\ Release(t)
  /\ th' = [th EXCEPT ![t] = IdleThread]
  /\ published' = << >>
  /\ UNCHANGED <<tasks_, warn_nohwid_done_, nwarn, dispatched, reg>>
  /\ ConcFrame

\* removeByName(name) is called.
StartRemove(t, name) ==
  /\ th[t].pc = "idle"
  /\ th' = [th EXCEPT ![t] = [IdleThread EXCEPT !.pc = "remove_lock", !.name = name]]
  /\ published' = << >>
  /\ UNCHANGED <<tasks_, warn_nohwid_done_, nwarn, dispatched, lock_, reg>>
  /\ ConcFrame

\* removeByName: std::unique_lock<std::mutex> lock(lock_); iter = tasks_.begin()
RemoveLock(t) ==
  /\ th[t].pc = "remove_lock"
  /\ Acquire(t)
  /\ th' = [th EXCEPT ![t].pc = "remove_loop", ![t].iter = 1]
  /\ published' = << >>
  /\ UNCHANGED <<tasks_, warn_nohwid_done_, nwarn, dispatched, reg>>
  /\ ConcFrame

\* removeByName, one turn of the loop: at end() return false; on a match
\* erase and return true; else iter++.
RemoveLoop(t) ==
  /\ th[t].pc = "remove_loop"
  /\ LET i == th[t].iter
         atEnd == i > Len(tasks_)
         match == ~atEnd /\ tasks_[i].name = th[t].name
     IN /\ tasks_' = IF match THEN Erase(tasks_, i) ELSE tasks_
        /\ reg' = IF match /\ i <= Len(reg) THEN Erase(reg, i) ELSE reg
        /\ IF atEnd \/ match
             THEN /\ Release(t)
                  /\ th' = [th EXCEPT ![t] = IdleThread]
             ELSE /\ UNCHANGED lock_
                  /\ th' = [th EXCEPT ![t].iter = i + 1]
  /\ published' = << >>
  /\ UNCHANGED <<warn_nohwid_done_, nwarn, dispatched>>
  /\ ConcFrame

\* update() is called, by the Timer's due tick or by force_update.
StartUpdate(t) ==
  /\ th[t].pc = "idle"
  /\ th' = [th EXCEPT ![t] = [IdleThread EXCEPT !.pc = "update_lock"]]
  /\ published' = << >>
  /\ UNCHANGED <<tasks_, warn_nohwid_done_, nwarn, dispatched, lock_, reg>>
  /\ ConcFrame

\* update: the registry's lock is taken and held for the pass;
\* iter = getTasks().begin()
UpdateLock(t) ==
  /\ th[t].pc = "update_lock"
  /\ Acquire(t)
  /\ th' = [th EXCEPT ![t].pc = "update_loop", ![t].iter = 1, ![t].snap = reg]
  /\ published' = << >>
  /\ UNCHANGED <<tasks_, warn_nohwid_done_, nwarn, dispatched, reg>>
  /\ ConcFrame

\* update, one turn of the loop: a fresh report, run by the entry, collected.
UpdateLoop(t) ==
  /\ th[t].pc = "update_loop"
  /\ th[t].iter <= Len(tasks_)
  /\ tasks_[th[t].iter].fn \notin ReentrantFns
  /\ th' = [th EXCEPT ![t].status_vec = Append(@, run(tasks_[th[t].iter], FreshStatus)),
                      ![t].iter = @ + 1]
  /\ published' = << >>
  /\ UNCHANGED <<tasks_, warn_nohwid_done_, nwarn, dispatched, lock_, reg>>
  /\ ConcFrame

\* update, one turn of the loop on an entry whose callback calls add or
\* removeByName on this registry: the call is made from inside run, on the
\* thread of the pass, and comes to std::unique_lock<std::mutex> lock(lock_).
UpdateReenter(t) ==
  /\ th[t].pc = "update_loop"
  /\ th[t].iter <= Len(tasks_)
  /\ tasks_[th[t].iter].fn \in ReentrantFns
  /\ th' = [th EXCEPT ![t].pc = "reenter_lock", ![t].name = tasks_[th[t].iter].name]
  /\ published' = << >>
  /\ UNCHANGED <<tasks_, warn_nohwid_done_, nwarn, dispatched, lock_, reg>>
  /\ ConcFrame

\* addInternal or removeByName called by the callback:
\* std::unique_lock<std::mutex> lock(lock_). Where the library throws, the
\* exception leaves the callback and the pass, whose lock is released on the
\* way out; where it does not, the thread goes on when it has the mutex.
ReenterLock(t) ==
  /\ th[t].pc = "reenter_lock"
  /\ IF relock = "throw" /\ lock_ = t
       THEN /\ Release(t)
            /\ th' = [th EXCEPT ![t] = IdleThread]
       ELSE /\ Acquire(t)
            /\ th' = [th EXCEPT ![t].pc = "reenter_locked"]
  /\ published' = << >>
  /\ UNCHANGED <<tasks_, warn_nohwid_done_, nwarn, dispatched, reg>>
  /\ ConcFrame

\* update, after the loop: the no-hardware-id report once, then publish.
UpdatePublish(t) ==
  /\ th[t].pc = "update_loop"
  /\ th[t].iter > Len(tasks_)
  /\ LET warn == hwid_ = "" /\ ~warn_nohwid_done_
         status_vec == th[t].status_vec \o (IF warn THEN <<NoHwidStatus>> ELSE << >>)
     IN /\ published' = publish(status_vec)
        /\ warn_nohwid_done_' = (warn_nohwid_done_ \/ warn)
        /\ nwarn' = IF warn THEN CountWarn(nwarn) ELSE nwarn
        /\ dispatched' = TRUE
        /\ th' = [th EXCEPT ![t].pc = "update_return", ![t].status_vec = status_vec]
  /\ UNCHANGED <<tasks_, lock_, reg>>
  /\ ConcFrame

\* update returns: the lock is released.
UpdateReturn(t) ==
  /\ th[t].pc = "update_return"
  /\ Release(t)
  /\ th' = [th EXCEPT ![t] = IdleThread]
  /\ published' = << >>
  /\ UNCHANGED <<tasks_, warn_nohwid_done_, nwarn, dispatched, reg>>
  /\ ConcFrame

InitConc == UpdaterInit /\ CompositeIdle /\ ConcIdle

NextConc ==
  \/ \E t \in Threads, e \in ConcEntries : StartAdd(t, e)
  \/ \E t \in Threads : AddLock(t)
  \/ \E t \in Threads : AddPush(t)
  \/ \E t \in Threads : AddStore(t)
  \/ \E t \in Threads : AddCallback(t)
  \/ \E t \in Threads : AddReturn(t)
  \/ \E t \in Threads, n \in Names : StartRemove(t, n)
  \/ \E t \in Threads : RemoveLock(t)
  \/ \E t \in Threads : RemoveLoop(t)
  \/ \E t \in Threads : StartUpdate(t)
  \/ \E t \in Threads : UpdateLock(t)
  \/ \E t \in Threads : UpdateLoop(t)
  \/ \E t \in Threads : UpdatePublish(t)
  \/ \E t \in Threads : UpdateReturn(t)

SpecConc == InitConc /\ [][NextConc]_vars

\* A step of thread t inside a call it has started.
Step(t) ==
  \/ AddLock(t) \/ AddPush(t) \/ AddStore(t) \/ AddCallback(t) \/ AddReturn(t)
  \/ RemoveLock(t) \/ RemoveLoop(t)
  \/ UpdateLock(t) \/ UpdateLoop(t) \/ UpdateReenter(t) \/ ReenterLock(t)
  \/ UpdatePublish(t) \/ UpdateReturn(t)

\* Threads that run: a thread that can take its next step for as long as it
\* does not take it, takes it. A thread waiting for the mutex is promised
\* nothing: std::mutex does not say which waiter gets it.
SpecConcFair == SpecConc /\ \A t \in Threads : WF_vars(Step(t))

\* The entries of a registry with callbacks that call back into it.
ReenterEntries ==
  {DiagnosticTaskInternal("a", "ok"), DiagnosticTaskInternal("a", "readd"),
   DiagnosticTaskInternal("b", "unregister")}

InitReenter ==
  /\ UpdaterInit
  /\ CompositeIdle
  /\ lock_ = 0
  /\ th = [t \in Threads |-> IdleThread]
  /\ reg = << >>
  /\ relock \in RelockOutcomes

NextReenter ==
  \/ \E t \in Threads, e \in ReenterEntries : StartAdd(t, e)
  \/ \E t \in Threads : AddLock(t)
  \/ \E t \in Threads : AddPush(t)
  \/ \E t \in Threads : AddStore(t)
  \/ \E t \in Threads : AddCallback(t)
  \/ \E t \in Threads : AddReturn(t)
  \/ \E t \in Threads, n \in Names : StartRemove(t, n)
  \/ \E t \in Threads : RemoveLock(t)
  \/ \E t \in Threads : RemoveLoop(t)
  \/ \E t \in Threads : StartUpdate(t)
  \/ \E t \in Threads : UpdateLock(t)
  \/ \E t \in Threads : UpdateLoop(t)
  \/ \E t \in Threads : UpdateReenter(t)
  \/ \E t \in Threads : ReenterLock(t)
  \/ \E t \in Threads : UpdatePublish(t)
  \/ \E t \in Threads : UpdateReturn(t)

SpecReenter == InitReenter /\ [][NextReenter]_vars

(* --------------------------- specifications --------------------------- *)

Init == UpdaterInit /\ CompositeIdle /\ ConcIdle

Next ==
  \/ \E n \in Names, f \in TaskFns : add(n, f) /\ UNCHANGED <<compVars, concVars>>
  \/ \E n \in Names : removeByName(n) /\ UNCHANGED <<compVars, concVars>>
  \/ tick /\ UNCHANGED <<compVars, concVars>>
  \/ force_update /\ UNCHANGED <<compVars, concVars>>
  \/ \E p \in Periods : setPeriod(p) /\ UNCHANGED <<compVars, concVars>>
  \/ \E h \in HardwareIDs : setHardwareID(h) /\ UNCHANGED <<compVars, concVars>>
  \/ \E a \in BroadcastArgs : broadcast(a[1], a[2]) /\ UNCHANGED <<compVars, concVars>>
  \/ AdvanceClock /\ UNCHANGED <<compVars, concVars>>

Spec == Init /\ [][Next]_vars

\* The Updater of a process that never sets a hardware id.
NextNoHwid ==
  \/ \E n \in Names, f \in TaskFns : add(n, f) /\ UNCHANGED <<compVars, concVars>>
  \/ \E n \in Names : removeByName(n) /\ UNCHANGED <<compVars, concVars>>
  \/ tick /\ UNCHANGED <<compVars, concVars>>
  \/ force_update /\ UNCHANGED <<compVars, concVars>>
  \/ \E p \in Periods : setPeriod(p) /\ UNCHANGED <<compVars, concVars>>
  \/ setHardwareID("") /\ UNCHANGED <<compVars, concVars>>
  \/ AdvanceClock /\ UNCHANGED <<compVars, concVars>>

SpecNoHwid == Init /\ [][NextNoHwid]_vars

\* The Updater driven by its Timer alone: no setPeriod, no force_update.
NextTimer ==
  \/ \E n \in Names, f \in TaskFns : add(n, f) /\ UNCHANGED <<compVars, concVars>>
  \/ \E n \in Names : removeByName(n) /\ UNCHANGED <<compVars, concVars>>
  \/ tick /\ UNCHANGED <<compVars, concVars>>
  \/ \E h \in HardwareIDs : setHardwareID(h) /\ UNCHANGED <<compVars, concVars>>
  \/ AdvanceClock /\ UNCHANGED <<compVars, concVars>>

SpecTimer == Init /\ [][NextTimer]_vars

\* The entries of a registry that holds a failing callback.
FailingEntries ==
  {DiagnosticTaskInternal("a", "ok"), DiagnosticTaskInternal("b", "rename"),
   DiagnosticTaskInternal("a", "throw")}

\* The Updater with callbacks that can throw.
NextThrow ==
  \/ \E e \in FailingEntries : add(e.name, e.fn) /\ UNCHANGED <<compVars, concVars>>
  \/ \E n \in Names : removeByName(n) /\ UNCHANGED <<compVars, concVars>>
  \/ tick /\ UNCHANGED <<compVars, concVars>>
  \/ force_update /\ UNCHANGED <<compVars, concVars>>
  \/ \E h \in HardwareIDs : setHardwareID(h) /\ UNCHANGED <<compVars, concVars>>
  \/ AdvanceClock /\ UNCHANGED <<compVars, concVars>>

SpecThrow == Init /\ [][NextThrow]_vars

InitComposite == UpdaterInit /\ CompositeInit /\ ConcIdle

NextComposite ==
  \/ CompositeBegin /\ UNCHANGED <<updVars, concVars>>
  \/ CompositeIter /\ UNCHANGED <<updVars, concVars>>
  \/ CompositeEnd /\ UNCHANGED <<updVars, concVars>>

SpecComposite == InitComposite /\ [][NextComposite]_vars

(* ------------------------- registry properties ------------------------ *)

\* The registry as the last call found it.
Before == last.tasks

\* Whether the last step began a dispatch pass (a due tick or a force_update).
PassBegun == last.op = "force_update" \/ (last.op = "tick" /\ last.ret)

\* Whether the last step ran a dispatch pass to its end.
IsPass == PassBegun /\ ~raised

\* `s` with its i-th element left out.
Without(s, i) == [k \in 1..(Len(s) - 1) |-> IF k < i THEN s[k] ELSE s[k + 1]]

\* C1: removeByName(name) removes exactly the first entry, in registration
\* order, whose name is `name` and returns true; with no such entry it returns
\* false and leaves the registry as it was; the entries that stay keep their
\* order.
C1_RemoveFirstMatch ==
  last.op = "removeByName" =>
    IF \E i \in 1..Len(Before) : Before[i].name = last.name
      THEN /\ last.ret = TRUE
           /\ \E i \in 1..Len(Before) :
                /\ Before[i].name = last.name
                /\ \A j \in 1..(i - 1) : Before[j].name # last.name
                /\ tasks_ = Without(Before, i)
      ELSE /\ last.ret = FALSE
           /\ tasks_ = Before

\* A removal from a registry of three entries, two of them (different ones)
\* carrying the removed name, the first of the two not at the front.
C1_Witness ==
  /\ last.op = "removeByName"
  /\ last.ret = TRUE
  /\ Len(Before) = 3
  /\ Before[1].name # last.name
  /\ Before[2].name = last.name
  /\ Before[3].name = last.name
  /\ Before[2] # Before[3]
  /\ tasks_ = <<Before[1], Before[3]>>

(* ------------------------ scheduler properties ------------------------ *)

\* C3: a tick while now < next_due publishes nothing, runs no task callback
\* and leaves the schedule, the registry and the latch alone; a tick at
\* now = next_due runs every entry once, hands the Sink exactly one batch, and
\* next_due is then now + period.
C3_TickTiming ==
  last.op = "tick" =>
    /\ now < last.next_due =>
         /\ published = << >>
         /\ ran = 0
         /\ ~raised
         /\ last.ret = FALSE
         /\ next_due = last.next_due
         /\ tasks_ = Before
         /\ warn_nohwid_done_ = last.warned
         /\ dispatched = last.dispatched
    /\ now = last.next_due =>
         /\ Len(published) = 1
         /\ ran = Len(Before)
         /\ last.ret = TRUE
         /\ next_due = now + period_

\* A tick exactly at the due time, after the clock has moved, with two
\* entries run.
C3_Witness ==
  /\ last.op = "tick"
  /\ now = last.next_due
  /\ now > 0
  /\ Len(published) = 1
  /\ Len(tasks_) = 2

\* C4: the batch of a dispatch pass holds one report per entry registered at
\* the time of the pass, in registry order, and nothing else but the one
\* no-hardware-id report when that is due.
C4_OneReportPerEntry ==
  IsPass =>
    /\ Len(published) = 1
    /\ LET batch == published[1]
           n == Len(Before)
           synthetic == hwid_ = "" /\ ~last.warned
       IN /\ Len(batch) = n + (IF synthetic THEN 1 ELSE 0)
          /\ \A i \in 1..n : batch[i] = run(Before[i], FreshStatus)
          /\ synthetic => batch[n + 1].level = WARN

\* A pass over three entries, not all the same, with no synthetic report.
C4_Witness ==
  /\ IsPass
  /\ Len(Before) = 3
  /\ Before[1] # Before[2]
  /\ Len(published) = 1
  /\ Len(published[1]) = 3

\* C5 as claimed: every report of a pass carries its entry's registered name,
\* whatever the callback assigned.
C5_NameForcedAfterRun ==
  IsPass =>
    \A i \in 1..Len(Before) : published[1][i].name = Before[i].name

\* C5 as amended: the registered name is written before the callback runs, so
\* the report carries the registered name exactly when the callback does not
\* assign the name itself; a name the callback assigns stays.
C5_NameSetBeforeRun ==
  IsPass =>
    \A i \in 1..Len(Before) :
      published[1][i].name =
        IF Before[i].fn = "rename" THEN "renamed" ELSE Before[i].name

\* A pass that ran a renaming callback and a plain one.
C5_Witness ==
  /\ IsPass
  /\ Len(Before) >= 2
  /\ Before[1].fn = "rename"
  /\ Before[2].fn = "ok"
  /\ published[1][1].name = "renamed"
  /\ published[1][2].name = Before[2].name

\* C6: force_update runs a pass at once, due or not, and next_due is
\* afterwards what it was before.
C6_ForceUpdateKeepsSchedule ==
  last.op = "force_update" =>
    /\ Len(published) = 1
    /\ Len(published[1]) >= Len(tasks_)
    /\ next_due = last.next_due

\* A forced pass before the due time, and one after it, each with entries
\* to run and a clock that has moved since the schedule was computed.
C6_Witness ==
  /\ last.op = "force_update"
  /\ now < next_due
  /\ now > due_base
  /\ Len(tasks_) >= 1
  /\ Len(published) = 1

\* C7: setPeriod(P2) at time T leaves period = P2 and next_due = T + P2,
\* whatever they were; and next_due is always the clock reading of the latest
\* construction, due tick or setPeriod plus the current period.
C7_SetPeriodResets ==
  /\ last.op = "setPeriod" =>
       /\ period_ = last.arg
       /\ next_due = now + last.arg
  /\ next_due = due_base + period_

\* A setPeriod that changes the period, called when the old next_due was not
\* one old period away from now.
C7_Witness ==
  /\ last.op = "setPeriod"
  /\ last.arg # last.period
  /\ now > 0
  /\ last.next_due # now + last.period
  /\ last.next_due # now + last.arg

\* C8: an add hands the Sink exactly one batch, holding one placeholder
\* report named after the new entry and nothing of any other entry, and
\* next_due stays what it was.
C8_AddPublishesPlaceholder ==
  last.op = "add" =>
    /\ tasks_ = Append(Before, tasks_[Len(tasks_)])
    /\ tasks_[Len(tasks_)].name = last.name
    /\ Len(published) = 1
    /\ Len(published[1]) = 1
    /\ published[1][1].name = last.name
    /\ published[1][1].level \in {OK, STALE}
    /\ published[1][1].values = << >>
    /\ next_due = last.next_due

\* An add to a registry that already holds an entry of another name.
C8_Witness ==
  /\ last.op = "add"
  /\ Len(Before) = 2
  /\ Before[1].name # last.name
  /\ Before[2].name # last.name
  /\ Len(published) = 1
  /\ published[1][1].name = last.name

(* ------------------------ composite properties ------------------------ *)

\* What child i leaves as the report's summary: its own when it sets one, the
\* summary passed to the composite when it does not.
ChildSummary(i) ==
  IF ctasks[i].kind = "summary"
    THEN [level |-> ctasks[i].level, message |-> ctasks[i].message]
    ELSE [level |-> stat0.level, message |-> stat0.message]

RECURSIVE MaxLevelUpTo(_)
\* The largest level among the first n children, OK for none.
MaxLevelUpTo(n) ==
  IF n = 0 THEN OK
  ELSE LET m == MaxLevelUpTo(n - 1)
       IN IF ChildSummary(n).level > m THEN ChildSummary(n).level ELSE m

RECURSIVE JoinedUpTo(_)
\* The messages of the children among the first n that are not OK, in child
\* order, with the delimiter between each two.
JoinedUpTo(n) ==
  IF n = 0 THEN << >>
  ELSE IF ChildSummary(n).level = OK THEN JoinedUpTo(n - 1)
  ELSE IF JoinedUpTo(n - 1) = << >> THEN <<ChildSummary(n).message>>
  ELSE JoinedUpTo(n - 1) \o <<Delimiter, ChildSummary(n).message>>

RECURSIVE Flat(_)
\* The text a sequence of pieces spells.
Flat(pieces) ==
  IF pieces = << >> THEN "" ELSE Head(pieces) \o Flat(Tail(pieces))

RECURSIVE ValuesUpTo(_)
\* The fields the first n children append, in order.
ValuesUpTo(n) ==
  IF n = 0 THEN << >> ELSE ValuesUpTo(n - 1) \o ChildValues(ctasks[n])

\* C9: after a composite runs, the report's level is the largest of its
\* children's levels and its message is the messages of the children that
\* are not OK, in child order, joined by the delimiter.
C9_CompositeMerge ==
  cpc = "done" =>
    /\ stat.level = MaxLevelUpTo(Len(ctasks))
    /\ stat.message = Flat(JoinedUpTo(Len(ctasks)))

\* The example of the specification: an OK child, a WARN child saying
\* "low battery", an ERROR child saying "overheat".
C9_Witness ==
  /\ cpc = "done"
  /\ Len(ctasks) = 3
  /\ ctasks[1].kind = "summary" /\ ctasks[1].level = OK
  /\ ctasks[2] = [kind |-> "summary", level |-> WARN, message |-> "low battery"]
  /\ ctasks[3] = [kind |-> "summary", level |-> ERROR, message |-> "overheat"]
  /\ stat.level = ERROR
  /\ stat.message = "low battery; overheat"

\* C10: after a composite runs, the report holds the fields it came with
\* followed by every field every child appended, in the order appended.
C10_CompositeKeepsFields ==
  cpc = "done" =>
    stat.values = stat0.values \o ValuesUpTo(Len(ctasks))

\* A run of three children, on a report that came with a field, in which
\* five fields were appended.
C10_Witness ==
  /\ cpc = "done"
  /\ Len(ctasks) = 3
  /\ ctasks[1].kind = "summary"
  /\ ctasks[2].kind = "fields"
  /\ ctasks[3].kind = "summary"
  /\ ctasks[1].message # ctasks[3].message
  /\ Len(stat0.values) = 1
  /\ Len(stat.values) = 5

\* C18: every child of a composite is run on a report whose level and
\* message are the ones the composite was called with, whatever the children
\* before it set, and whose fields are the ones the composite came with
\* followed by the fields the children before it appended.
C18_ChildSeesOriginalSummary ==
  /\ cpc \in {"loop", "done"} => Len(seen) = ci - 1
  /\ \A i \in 1..Len(seen) :
       /\ seen[i].level = stat0.level
       /\ seen[i].message = stat0.message
       /\ seen[i].name = stat0.name
       /\ seen[i].values = stat0.values \o ValuesUpTo(i - 1)

\* The third child of a run called with ERROR "init": the first child set
\* WARN, the second appended fields, and the third is handed ERROR "init"
\* with the fields of both.
C18_Witness ==
  /\ cpc = "done"
  /\ Len(seen) = 3
  /\ stat0.level = ERROR
  /\ ctasks[1].kind = "summary" /\ ctasks[1].level = WARN
  /\ ctasks[2].kind = "fields"
  /\ seen[3].level = ERROR
  /\ seen[3].message = "init"
  /\ Len(seen[3].values) = Len(stat0.values) + 3

\* C20: a composite without children sets the level to OK and the message
\* to empty, and leaves the fields and the name as they were.
C20_EmptyComposite ==
  cpc = "done" /\ ctasks = << >> =>
    /\ stat.level = OK
    /\ stat.message = ""
    /\ stat.values = stat0.values
    /\ stat.name = stat0.name

\* A composite without children run on an ERROR report that has a field.
C20_Witness ==
  /\ cpc = "done"
  /\ ctasks = << >>
  /\ stat0.level = ERROR
  /\ stat0.message = "init"
  /\ Len(stat0.values) = 1
  /\ stat.level = OK
  /\ seen = << >>

(* ----------------------- concurrency properties ----------------------- *)

\* Where a thread is reading the registry for a pass, or holds its batch.
InPass == {"update_loop", "update_return"}

\* Where a thread is in the middle of changing or scanning the vector.
MidMutation == {"add_store", "remove_loop"}

\* C2: however adds, removals and passes of several threads interleave, no
\* added entry is lost (the vector is what the completed adds and removals
\* amount to), a pass never reads the registry while another thread is in the
\* middle of an add or a removeByName, the registry does not change under a
\* pass, and the batch of a pass holds the report of each entry registered
\* when the pass took the lock, in order.
C2_NoLostEntryNoTornSnapshot ==
  /\ tasks_ = reg
  /\ \A t \in Threads :
       th[t].pc \in InPass =>
         /\ \A u \in Threads \ {t} : th[u].pc \notin MidMutation
         /\ th[t].snap = tasks_
         /\ \A i \in 1..Len(th[t].snap) :
              i < th[t].iter =>
                /\ i <= Len(th[t].status_vec)
                /\ th[t].status_vec[i] = run(th[t].snap[i], FreshStatus)
  /\ \A t \in Threads :
       th[t].pc = "update_return" =>
         /\ th[t].iter = Len(th[t].snap) + 1
         /\ Len(th[t].status_vec) \in {Len(th[t].snap), Len(th[t].snap) + 1}

\* A pass over two entries has built its batch while a second thread waits
\* for the mutex to add and a third waits to remove.
C2_Witness ==
  \E t, u, v \in Threads :
    /\ th[t].pc = "update_return"
    /\ Len(th[t].snap) = 2
    /\ th[t].snap[1] # th[t].snap[2]
    /\ Len(th[t].status_vec) = 2
    /\ th[u].pc = "add_lock"
    /\ th[v].pc = "remove_lock"
    /\ lock_ = t

\* A thread that is inside a call.
Busy(t) == th[t].pc # "idle"

\* C15 as stated: with callbacks that terminate and do not call back into
\* the registry, every call started comes to its end, the mutex released.
C15_EveryCallCompletes ==
  \A t \in Threads : Busy(t) ~> (~Busy(t) /\ lock_ # t)

\* C15: with callbacks that terminate and do not call back into the
\* registry, the hook run by add under the mutex never deadlocks: a thread
\* outside a call does not hold the mutex; a thread inside a call can take a
\* step, or waits for the mutex while the thread holding it can take one;
\* a thread that holds the mutex comes to release it, its call ended; and the
\* mutex is free again and again.
C15_HookNeverDeadlocks ==
  /\ [](\A t \in Threads : ~Busy(t) => lock_ # t)
  /\ [](\A t \in Threads :
          Busy(t) => \/ ENABLED Step(t)
                     \/ lock_ \notin {0, t} /\ ENABLED Step(lock_))
  /\ \A t \in Threads : lock_ = t ~> (~Busy(t) /\ lock_ # t)
  /\ []<>(lock_ = 0)

\* A thread has run the hook and still holds the mutex, a second waits for
\* the mutex to add, a third waits for it to run a pass.
C15_Witness ==
  \E t, u, v \in Threads :
    /\ th[t].pc = "add_return"
    /\ lock_ = t
    /\ published # << >>
    /\ th[u].pc = "add_lock"
    /\ th[v].pc = "update_lock"

\* The thread of a pass has come, inside a callback, to lock the mutex the
\* pass holds.
SelfLocked(t) == th[t].pc = "reenter_lock" /\ lock_ = t

\* C16: a callback that calls add or removeByName on its registry from a
\* pass brings the thread of the pass to lock the mutex it holds already;
\* where that blocks, the thread can take no step, and it stays there.
C16_ReentrantCallbackDeadlocks ==
  /\ [](\A t \in Threads : th[t].pc = "reenter_lock" => lock_ = t)
  /\ [](\A t \in Threads : relock = "block" /\ SelfLocked(t) => ~ENABLED Step(t))
  /\ [][\A t \in Threads : relock = "block" /\ SelfLocked(t) => SelfLocked(t)']_vars

\* The thread of a pass is blocked on the mutex it holds, in the callback of
\* the second entry, while another thread waits to add.
C16_Witness ==
  \E t, u \in Threads :
    /\ relock = "block"
    /\ SelfLocked(t)
    /\ th[t].iter = 2
    /\ tasks_[2].fn \in ReentrantFns
    /\ Len(th[t].status_vec) = 1
    /\ th[u].pc = "add_lock"

(* ------------------- hardware id, broadcast, failures ------------------ *)

\* Whether a batch holds the no-hardware-id report.
HasNoHwid(batch) == \E i \in 1..Len(batch) : batch[i] = NoHwidStatus

\* C11: with the hardware id empty for the whole run, the no-hardware-id
\* report is handed to the Sink exactly once however many passes run: it is
\* in the batch of the first pass and in the batch of no later one.
C11_NoHwidWarningOnce ==
  /\ nwarn = (IF dispatched THEN 1 ELSE 0)
  /\ IsPass => (HasNoHwid(published[1]) <=> ~last.dispatched)

\* A pass after the first one, over entries, with no no-hardware-id report.
C11_Witness ==
  /\ IsPass
  /\ last.dispatched
  /\ hwid_ = ""
  /\ Len(tasks_) >= 1
  /\ nwarn = 1
  /\ ~HasNoHwid(published[1])

\* C12: warn_nohwid_done is a latch: a step that finds it true leaves it
\* true; it is true exactly when the no-hardware-id report has been handed
\* over; and the report is handed over at most once, whatever passes and
\* setHardwareID calls there are.
C12_WarnLatched ==
  /\ last.warned => warn_nohwid_done_
  /\ warn_nohwid_done_ <=> nwarn >= 1
  /\ nwarn <= 1
  /\ IsPass /\ HasNoHwid(published[1]) => ~last.warned

\* The id is set back to empty after the warning was given while it had been
\* non-empty in between, or a pass runs with the id empty again.
C12_Witness ==
  /\ warn_nohwid_done_
  /\ nwarn = 1
  /\ hwid_ = ""
  /\ \/ last.op = "setHardwareID" /\ last.hwid = "hw"
     \/ IsPass /\ last.warned /\ last.dispatched

\* C13: broadcast(level, message) hands the Sink at once one batch with one
\* report per registered name, in registry order, each with the level and
\* message given and no fields, and invokes no task callback.
C13_Broadcast ==
  last.op = "broadcast" =>
    /\ Len(published) = 1
    /\ Len(published[1]) = Len(Before)
    /\ \A i \in 1..Len(Before) :
         /\ published[1][i].name = Before[i].name
         /\ published[1][i].level = last.arg
         /\ published[1][i].message = last.name
         /\ published[1][i].values = << >>
    /\ ran = 0
    /\ tasks_ = Before
    /\ warn_nohwid_done_ = last.warned

\* A broadcast of ERROR to a registry of three entries of both names.
C13_Witness ==
  /\ last.op = "broadcast"
  /\ last.arg = ERROR
  /\ Len(Before) = 3
  /\ Before[1].name # Before[2].name
  /\ Before[1].fn = "ok"
  /\ published[1][3].message = "shutting down"

\* The reports of the entries in a batch: the batch without the
\* no-hardware-id report, when it ends with one.
WithoutNoHwid(batch) ==
  IF batch # << >> /\ batch[Len(batch)] = NoHwidStatus
    THEN SubSeq(batch, 1, Len(batch) - 1) ELSE batch

\* C14: two force_update calls one right after the other hand the Sink two
\* batches, one each, each holding a report of every registered entry, and
\* leave the registry as it was.
C14_ForceUpdateTwice ==
  last.twice =>
    /\ Len(last.earlier) = 1
    /\ Len(published) = 1
    /\ tasks_ = Before
    /\ \A b \in {last.earlier[1], published[1]} :
         /\ Len(WithoutNoHwid(b)) = Len(tasks_)
         /\ \A i \in 1..Len(tasks_) : b[i] = run(tasks_[i], FreshStatus)

\* Two forced passes in a row over two different entries, neither pass due.
C14_Witness ==
  /\ last.twice
  /\ Len(tasks_) = 2
  /\ tasks_[1] # tasks_[2]
  /\ now < last.next_due
  /\ Len(last.earlier) = 1
  /\ Len(published) = 1

\* C17: a pass in which a callback throws ends there: the exception reaches
\* the caller, the entries after the failing one are not run, nothing is
\* handed to the Sink, and the registry is as it was. A pass in which no
\* callback throws raises nothing.
C17_ThrowAbortsPass ==
  PassBegun =>
    LET failing == {i \in 1..Len(Before) : Before[i].fn \in ThrowingFns}
    IN IF failing # {}
         THEN /\ raised
              /\ published = << >>
              /\ \A i \in failing : ran <= i
              /\ ran \in failing
              /\ tasks_ = Before
              /\ warn_nohwid_done_ = last.warned
         ELSE /\ ~raised
              /\ Len(published) = 1
              /\ ran = Len(Before)

\* A pass over three entries whose second callback throws.
C17_Witness ==
  /\ PassBegun
  /\ raised
  /\ Len(Before) = 3
  /\ Before[1].fn = "ok"
  /\ Before[2].fn = "throw"
  /\ Before[3].fn = "rename"
  /\ ran = 2
  /\ published = << >>

\* C19: without setPeriod and force_update, a pass run by a tick comes at
\* least a period after the pass before it, however often tick is called.
C19_RateLimit ==
  last.op = "tick" /\ last.ret /\ last.dispatched =>
    now >= last.due_base + period_

\* The second of two passes run by ticks exactly one period apart.
C19_Witness ==
  /\ last.op = "tick"
  /\ last.ret
  /\ last.dispatched
  /\ last.due_base > 0
  /\ now = last.due_base + period_

====
